---- MODULE Spec2Model ----
(***************************************************************************)
(* A model of nanopore_processor.py: a directory watcher that, for every   *)
(* final_summary*.txt file found by a startup scan (main thread) or by a   *)
(* live creation event (observer thread), sends an e-mail notification and *)
(* runs the external basecaller, remembering handled paths in the          *)
(* in-memory set FileWatcher.processed_files.                              *)
(*                                                                         *)
(* A path is a sequence of names, the filesystem root being <<>>; a name   *)
(* is a sequence of tokens, so that startswith / endswith are computed on  *)
(* the name and not assumed.                                               *)
(***************************************************************************)
EXTENDS Integers, Sequences, FiniteSets, TLC

VARIABLES
    fs_dirs,          \* the directories that exist
    fs_files,         \* the regular files that exist
    unreadable,       \* the directories whose listing fails (no read permission)
    environ,          \* os.environ: SMTP_USER, SMTP_PASSWORD
    experiment_info,  \* the parsed configuration
    processed_files,  \* FileWatcher.processed_files
    queue,            \* the observer's event queue (events not yet dispatched)
    stopped,          \* observer.stop() has been called
    handler,          \* signal.signal(SIGINT, signal_handler) has been executed
    main,             \* the main thread: pc, os.walk position
    obs,              \* the observer thread: pc
    hand,             \* per thread, the process_file call in progress and the
                      \* error records it has logged so far
    started,          \* history: process_file calls per path
    notified,         \* history: send_email_notification calls per path
    sessions,         \* history: smtplib.SMTP sessions opened per path
    launched,         \* history: child processes started per path
    log,              \* history: error records logged by main() itself
    skipped,          \* history: per thread, the paths it found already processed
    signals,          \* history: SIGINTs delivered
    events            \* history: creation events emitted

vars == <<fs_dirs, fs_files, unreadable, environ, experiment_info, processed_files, queue,
          stopped, handler, main, obs, hand, started, notified, sessions,
          launched, log, skipped, signals, events>>

-----------------------------------------------------------------------------
(* Bounds of the model *)

MaxEvents == 2        \* creation events emitted during one run
MaxSignals == 2       \* SIGINTs delivered during one run

-----------------------------------------------------------------------------
(* Names and paths *)

PREFIX == <<"final_summary">>
SUFFIX == <<".txt">>
POD5 == <<"pod5">>

MarkerName == <<"final_summary", "_run", ".txt">>
UpperName == <<"final_summary", ".TXT">>

ROOT == <<>>
ExpDir == <<<<"exp">>>>
RunDir == <<<<"exp">>, <<"run1">>>>
SubDir == <<<<"exp">>, <<"run1">>, <<"a">>>>
MissingDir == <<<<"missing">>>>

Chain == {ROOT, ExpDir, RunDir, SubDir}

dirname(p) == IF p = <<>> THEN <<>> ELSE SubSeq(p, 1, Len(p) - 1)

basename(p) == IF p = <<>> THEN <<>> ELSE p[Len(p)]

join(d, n) == Append(d, n)

startswith(s, pre) ==
    /\ Len(s) >= Len(pre)
    /\ SubSeq(s, 1, Len(pre)) = pre

endswith(s, suf) ==
    /\ Len(s) >= Len(suf)
    /\ SubSeq(s, Len(s) - Len(suf) + 1, Len(s)) = suf

\* a variant that accepts any path
isdir_unchecked(p) == TRUE

isdir(p) == p \in fs_dirs

listdirs(d) == {c \in fs_dirs : c # <<>> /\ dirname(c) = d}

listfiles(d) == {f \in fs_files : dirname(f) = d}

RECURSIVE SetToSeq(_)
SetToSeq(S) ==
    IF S = {} THEN <<>>
    ELSE LET x == CHOOSE y \in S : TRUE IN <<x>> \o SetToSeq(S \ {x})

-----------------------------------------------------------------------------
(* The entries of the monitored tree *)

SubMarker == join(SubDir, MarkerName)
ExpMarker == join(ExpDir, MarkerName)
UpperFile == join(ExpDir, UpperName)
MarkerNamedDir == join(RunDir, MarkerName)

Markers == {SubMarker, ExpMarker}
Paths == Markers \cup {UpperFile, MarkerNamedDir}

FileEntries == {[src_path |-> p, is_directory |-> FALSE] : p \in Markers \cup {UpperFile}}
DirEntries == {[src_path |-> MarkerNamedDir, is_directory |-> TRUE]}
Entries == FileEntries \cup DirEntries

\* the trees the program is started on: where the pod5 directories are, and
\* which files exist before the observer is started
Pod5Layouts == {{RunDir}, {ROOT}}
InitialFiles == {{}, {ExpMarker, UpperFile}}

Methods == {"simplex", "duplex", "rna"}
EnvValues == {"unset", "set"}
Threads == {"main", "observer"}

None == <<<<"None">>>>
NoCall == [pc |-> "none", path |-> None, pod5_folder |-> None, exc |-> "none",
           errors |-> {}, command |-> <<>>, output_file |-> None]

-----------------------------------------------------------------------------
(* Pure functions of the program *)

\* on_created's test of the file name (line 74)
isMarkerLive(file_name) == endswith(file_name, SUFFIX) /\ startswith(file_name, PREFIX)

\* a variant that tests the extension only
isMarkerScan_suffix_only(file_name) == endswith(file_name, SUFFIX)

\* main's test of the file name during os.walk (line 297)
isMarkerScan(file_name) == endswith(file_name, SUFFIX) /\ startswith(file_name, PREFIX)

Levels == 3

RECURSIVE find_loop(_, _)
find_loop(current_dir, n) ==
    IF n = 0 THEN None
    ELSE IF isdir(join(current_dir, POD5)) THEN join(current_dir, POD5)
    ELSE find_loop(dirname(current_dir), n - 1)

\* variants: one level too many; the search started at the file itself
find_pod5_folder_four_levels(file_path) == find_loop(dirname(file_path), Levels + 1)

find_pod5_folder_no_dirname(file_path) == find_loop(file_path, Levels)

find_pod5_folder(file_path) == find_loop(dirname(file_path), Levels)

\* a variant that tests the user name only
credentials_missing_user_only == environ.SMTP_USER = "unset"

\* `if not smtp_user or not smtp_password` (lines 120-122)
credentials_missing == environ.SMTP_USER = "unset" \/ environ.SMTP_PASSWORD = "unset"

-----------------------------------------------------------------------------
(* Initial state: the interpreter has started, main() has not yet run *)

Init ==
    /\ \E layout \in Pod5Layouts :
          fs_dirs = Chain \cup {join(d, POD5) : d \in layout}
    /\ fs_files \in InitialFiles
    /\ unreadable = {}
    /\ environ \in [SMTP_USER : EnvValues, SMTP_PASSWORD : EnvValues]
    /\ experiment_info \in [path : {ExpDir, MissingDir}, basecalling_method : Methods,
                            model : {"hac"}, dorado_executable : {"dorado"}]
    /\ processed_files = {}
    /\ queue = <<>>
    /\ stopped = FALSE
    /\ handler = FALSE
    /\ main = [pc |-> "start", walk |-> <<>>, root |-> None, files |-> <<>>, scans |-> 0]
    /\ obs = "unstarted"
    /\ hand = [t \in Threads |-> NoCall]
    /\ started = [p \in Paths |-> 0]
    /\ notified = [p \in Paths |-> 0]
    /\ sessions = [p \in Paths |-> 0]
    /\ launched = [p \in Paths |-> 0]
    /\ log = {}
    /\ skipped = [t \in Threads |-> {}]
    /\ signals = 0
    /\ events = 0

-----------------------------------------------------------------------------
(* Exceptions and the except clauses of the program *)

Exceptions == {"CalledProcessError", "OSError", "SMTPException"}
BaseExceptions == Exceptions \cup {"KeyboardInterrupt", "SystemExit"}

\* a variant that catches nothing
except_nothing(e) == FALSE

\* `except Exception` (lines 99, 140, 178, 216, 305, 319)
except_Exception(e) == e \in Exceptions

\* `except subprocess.CalledProcessError` (lines 176, 214)
except_CalledProcessError(e) == e = "CalledProcessError"

\* a variant that never finds the path
already_processed_never(file_path) == FALSE

\* membership test of the dedup set (lines 75, 299)
already_processed(file_path) == file_path \in processed_files

\* a variant that forgets the path
add_nothing(set, file_path) == set

\* processed_files.add (lines 78, 302)
add(set, file_path) == set \cup {file_path}

ProcessAlive == main.pc # "Stopped"

InCall(t) == hand[t].pc \in {"notify", "dispatch", "tool"}

-----------------------------------------------------------------------------
(* process_file, run by either thread t *)

\* a variant that goes to the dispatch without the notification
process_file_unnotified(t, file_path) ==
    /\ hand' = [hand EXCEPT ![t] = [NoCall EXCEPT !.pc = "dispatch", !.path = file_path]]
    /\ started' = [started EXCEPT ![file_path] = @ + 1]

\* a variant that hands the work over and returns at once
process_file_detached(t, file_path) ==
    /\ hand' = [hand EXCEPT ![t] = [NoCall EXCEPT !.pc = "returned", !.path = file_path]]
    /\ started' = [started EXCEPT ![file_path] = @ + 1]

\* the call itself (lines 77, 301)
process_file(t, file_path) ==
    /\ hand' = [hand EXCEPT ![t] = [NoCall EXCEPT !.pc = "notify", !.path = file_path]]
    /\ started' = [started EXCEPT ![file_path] = @ + 1]

\* where control lands after exception e is raised inside process_file at
\* `site`: the try of send_email_notification, of run_*_basecalling, or the
\* body of process_file itself
Landing(site, e) ==
    IF site = "send" /\ except_Exception(e) THEN "dispatch"
    ELSE IF site = "run" /\ (except_CalledProcessError(e) \/ except_Exception(e))
         THEN "returned"
    ELSE IF except_Exception(e) THEN "returned"
    ELSE "raised"

LogOf(site, e) ==
    IF site = "send" /\ except_Exception(e) THEN {"email_failed"}
    ELSE IF site = "run" /\ except_CalledProcessError(e) THEN {"basecalling_failed"}
    ELSE IF site = "run" /\ except_Exception(e) THEN {"unexpected_error"}
    ELSE IF except_Exception(e) THEN {"processing_error"}
    ELSE {}

\* the call in progress on thread t moves to pc, having logged `records`
Step(t, pc, records) ==
    [hand EXCEPT ![t].pc = pc, ![t].errors = @ \cup records]

\* the call in progress on thread t after e is raised at `site`; exc keeps the
\* last exception raised within the call, caught or not
Raise(t, site, e) ==
    [hand EXCEPT ![t].pc = Landing(site, e),
                 ![t].exc = e,
                 ![t].errors = @ \cup LogOf(site, e)]

\* lines 86-87 and 102-141
send_email_notification(t) ==
    /\ ProcessAlive
    /\ hand[t].pc = "notify"
    /\ LET p == hand[t].path IN
       /\ notified' = [notified EXCEPT ![p] = @ + 1]
       /\ IF credentials_missing
          THEN /\ sessions' = sessions
               /\ hand' = Step(t, "dispatch", {"smtp_credentials"})
          ELSE /\ sessions' = [sessions EXCEPT ![p] = @ + 1]
               /\ \/ hand' = Step(t, "dispatch", {})
                  \/ hand' = Raise(t, "send", "SMTPException")
    /\ UNCHANGED <<fs_dirs, fs_files, unreadable, environ, experiment_info, processed_files,
                   queue, stopped, handler, main, obs, started, launched, log,
                   skipped, signals, events>>

\* a variant that takes every method for a known one
known_method_any(method) == TRUE

\* the branches of lines 90-95
known_method(method) == method \in {"simplex", "duplex"}

\* lines 155-156, 193-194
simplex_output_file(file_path) ==
    join(dirname(file_path), <<"simplex_basecalled", ".bam">>)

\* a variant that writes where the simplex run writes
duplex_output_file_as_simplex(file_path) ==
    join(dirname(file_path), <<"simplex_basecalled", ".bam">>)

duplex_output_file(file_path) ==
    join(dirname(file_path), <<"duplex_basecalled", ".bam">>)

\* lines 164-169, 202-207
simplex_command(pod5_folder) ==
    <<experiment_info.dorado_executable, "basecaller", experiment_info.model,
      pod5_folder>>

duplex_command(pod5_folder) ==
    <<experiment_info.dorado_executable, "duplex", experiment_info.model,
      pod5_folder>>

\* lines 89-95, then run_simplex_basecalling / run_duplex_basecalling up to the
\* start of the child (lines 143-174, 181-212): the output file is opened and
\* the child is started, or one of the two fails with OSError
run_basecalling(t) ==
    /\ ProcessAlive
    /\ hand[t].pc = "dispatch"
    /\ LET p == hand[t].path
           method == experiment_info.basecalling_method
           pod5_folder == find_pod5_folder(p)
           command == IF method = "simplex" THEN simplex_command(pod5_folder)
                      ELSE duplex_command(pod5_folder)
           output_file == IF method = "simplex" THEN simplex_output_file(p)
                          ELSE duplex_output_file(p)
       IN IF ~known_method(method)
          THEN /\ hand' = Step(t, "returned", {"unknown_method"})
               /\ launched' = launched
          ELSE IF pod5_folder = None
          THEN /\ hand' = Step(t, "returned", {"pod5_not_found"})
               /\ launched' = launched
          ELSE \/ /\ launched' = [launched EXCEPT ![p] = @ + 1]
                  /\ hand' = [Step(t, "tool", {}) EXCEPT
                                 ![t].pod5_folder = pod5_folder,
                                 ![t].command = command,
                                 ![t].output_file = output_file]
               \/ /\ launched' = launched
                  /\ hand' = [Raise(t, "run", "OSError") EXCEPT
                                 ![t].pod5_folder = pod5_folder,
                                 ![t].command = command,
                                 ![t].output_file = output_file]
    /\ UNCHANGED <<fs_dirs, fs_files, unreadable, environ, experiment_info,
                   processed_files, queue, stopped, handler, main, obs, started,
                   notified, sessions, log, skipped, signals, events>>

\* the child exits: subprocess.run(check=True) returns or raises (lines 174-179)
tool_exit(t) ==
    /\ ProcessAlive
    /\ hand[t].pc = "tool"
    /\ \/ hand' = Step(t, "returned", {})
       \/ hand' = Raise(t, "run", "CalledProcessError")
    /\ UNCHANGED <<fs_dirs, fs_files, unreadable, environ, experiment_info, processed_files,
                   queue, stopped, handler, main, obs, started, notified,
                   sessions, launched, log, skipped, signals, events>>

-----------------------------------------------------------------------------
(* The observer: the polling emitter and the event-dispatching thread *)

\* an entry appears under the monitored root and the emitter queues its event
file_created(event) ==
    /\ ProcessAlive
    /\ obs # "unstarted"
    /\ ~stopped
    /\ events < MaxEvents
    /\ IF event.is_directory
       THEN fs_dirs' = fs_dirs \cup {event.src_path} /\ fs_files' = fs_files
       ELSE fs_files' = fs_files \cup {event.src_path} /\ fs_dirs' = fs_dirs
    /\ queue' = Append(queue, event)
    /\ events' = events + 1
    /\ UNCHANGED <<unreadable, environ, experiment_info, processed_files, stopped, handler,
                   main, obs, hand, started, notified, sessions, launched, log,
                   skipped, signals>>

\* the observer thread takes the next event: on_created up to the call of
\* process_file (lines 68-77, 79-80)
on_created ==
    /\ ProcessAlive
    /\ obs = "idle"
    /\ ~stopped
    /\ queue # <<>>
    /\ LET event == Head(queue)
           file_name == basename(event.src_path)
       IN IF event.is_directory \/ ~isMarkerLive(file_name)
          THEN UNCHANGED <<hand, started, obs, skipped>>
          ELSE IF ~already_processed(event.src_path)
          THEN /\ process_file("observer", event.src_path)
               /\ obs' = "handling"
               /\ skipped' = skipped
          ELSE /\ skipped' = [skipped EXCEPT !["observer"] = @ \cup {event.src_path}]
               /\ UNCHANGED <<hand, started, obs>>
    /\ queue' = Tail(queue)
    /\ UNCHANGED <<fs_dirs, fs_files, unreadable, environ, experiment_info, processed_files,
                   stopped, handler, main, notified, sessions, launched, log,
                   signals, events>>

\* process_file has returned to on_created (line 78), or an exception left it
\* and ends the observer thread
on_created_return ==
    /\ ProcessAlive
    /\ obs = "handling"
    /\ hand["observer"].pc \in {"returned", "raised"}
    /\ IF hand["observer"].pc = "returned"
       THEN /\ processed_files' = add(processed_files, hand["observer"].path)
            /\ obs' = "idle"
       ELSE /\ processed_files' = processed_files
            /\ obs' = "crashed"
    /\ hand' = [hand EXCEPT !["observer"] = NoCall]
    /\ UNCHANGED <<fs_dirs, fs_files, unreadable, environ, experiment_info, queue, stopped,
                   handler, main, started, notified, sessions, launched, log,
                   skipped, signals, events>>

\* the observer thread leaves its run loop once stop() has been called
observer_exit ==
    /\ ProcessAlive
    /\ obs = "idle"
    /\ stopped
    /\ obs' = "terminated"
    /\ UNCHANGED <<fs_dirs, fs_files, unreadable, environ, experiment_info, processed_files,
                   queue, stopped, handler, main, hand, started, notified,
                   sessions, launched, log, skipped, signals, events>>

ObserverDone == obs \in {"unstarted", "terminated", "crashed"}

-----------------------------------------------------------------------------
(* main() *)

\* lines 273-278 and 325-326
main_validate ==
    /\ main.pc = "start"
    /\ IF isdir(experiment_info.path)
       THEN /\ main' = [main EXCEPT !.pc = "observer"]
            /\ log' = log
       ELSE /\ main' = [main EXCEPT !.pc = "Stopped"]
            /\ log' = log \cup {<<"data_path_missing", experiment_info.path>>}
    /\ UNCHANGED <<fs_dirs, fs_files, unreadable, environ, experiment_info, processed_files,
                   queue, stopped, handler, obs, hand, started, notified,
                   sessions, launched, skipped, signals, events>>

\* lines 283-293: the observer is scheduled and started, os.walk is created
main_start_observer ==
    /\ main.pc = "observer"
    /\ obs' = "idle"
    /\ main' = [main EXCEPT !.pc = "files", !.walk = <<experiment_info.path>>,
                             !.scans = 1]
    /\ UNCHANGED <<fs_dirs, fs_files, unreadable, environ, experiment_info, processed_files,
                   queue, stopped, handler, hand, started, notified, sessions,
                   launched, log, skipped, signals, events>>

\* os.scandir(d) raises PermissionError
scandir_fails(d) == d \in unreadable

\* a variant that ends the walk at the first directory that cannot be listed
walk_onerror_abort(m) == [m EXCEPT !.walk = <<>>]

\* os.walk with onerror=None (line 293): the directory is dropped, the walk
\* goes on with the directories still to be visited
walk_onerror(m) == [m EXCEPT !.walk = Tail(@)]

\* the files of the current directory are exhausted: os.walk goes to the next
\* directory, listed when it is reached, or ends the scan (lines 293-295).
\* os.walk is called without onerror: a directory whose listing fails is
\* passed over in silence, with everything below it, and the walk goes on.
main_walk ==
    /\ main.pc = "files"
    /\ main.files = <<>>
    /\ IF main.walk = <<>>
       THEN main' = [main EXCEPT !.pc = "install", !.root = None]
       ELSE LET root == Head(main.walk) IN
            IF scandir_fails(root)
            THEN main' = walk_onerror(main)
            ELSE main' = [main EXCEPT
                            !.root = root,
                            !.walk = SetToSeq(listdirs(root)) \o Tail(main.walk),
                            !.files = SetToSeq({basename(f) : f \in listfiles(root)})]
    /\ UNCHANGED <<fs_dirs, fs_files, unreadable, environ, experiment_info,
                   processed_files, queue, stopped, handler, obs, hand, started,
                   notified, sessions, launched, log, skipped, signals, events>>

\* the loop over the files of one directory (lines 295-301, 303-304)
main_next_file ==
    /\ main.pc = "files"
    /\ main.files # <<>>
    /\ LET file_name == Head(main.files)
           file_path == join(main.root, file_name)
       IN IF ~isMarkerScan(file_name)
          THEN /\ main' = [main EXCEPT !.files = Tail(@)]
               /\ UNCHANGED <<hand, started, skipped>>
          ELSE IF ~already_processed(file_path)
          THEN /\ process_file("main", file_path)
               /\ main' = [main EXCEPT !.pc = "process"]
               /\ skipped' = skipped
          ELSE /\ main' = [main EXCEPT !.files = Tail(@)]
               /\ skipped' = [skipped EXCEPT !["main"] = @ \cup {file_path}]
               /\ UNCHANGED <<hand, started>>
    /\ UNCHANGED <<fs_dirs, fs_files, unreadable, environ, experiment_info, processed_files,
                   queue, stopped, handler, obs, notified, sessions, launched,
                   log, signals, events>>

\* the main thread after exception e has left the scan's loop body: the scan's
\* except clause ends the scan (lines 305-306), anything else ends main()
Unwound(e) ==
    IF main.pc \in {"files", "process"} /\ except_Exception(e)
    THEN [main EXCEPT !.pc = "install", !.walk = <<>>, !.files = <<>>, !.root = None]
    ELSE [main EXCEPT !.pc = "Stopped"]

UnwoundLog(e) ==
    IF main.pc \in {"files", "process"} /\ except_Exception(e)
    THEN {<<"traversal_error", experiment_info.path>>}
    ELSE {}

\* process_file has returned to the scan (line 302), or an exception left it
\* and is caught by the scan's except clause (lines 305-306)
main_return ==
    /\ main.pc = "process"
    /\ hand["main"].pc \in {"returned", "raised"}
    /\ IF hand["main"].pc = "returned"
       THEN /\ processed_files' = add(processed_files, hand["main"].path)
            /\ main' = [main EXCEPT !.pc = "files", !.files = Tail(@)]
            /\ log' = log
       ELSE /\ processed_files' = processed_files
            /\ main' = Unwound(hand["main"].exc)
            /\ log' = log \cup UnwoundLog(hand["main"].exc)
    /\ hand' = [hand EXCEPT !["main"] = NoCall]
    /\ UNCHANGED <<fs_dirs, fs_files, unreadable, environ, experiment_info, queue, stopped,
                   handler, obs, started, notified, sessions, launched,
                   skipped, signals, events>>

\* lines 308-318: the SIGINT handler is installed, the wait loop is entered
main_install ==
    /\ main.pc = "install"
    /\ handler' = TRUE
    /\ main' = [main EXCEPT !.pc = "wait"]
    /\ UNCHANGED <<fs_dirs, fs_files, unreadable, environ, experiment_info, processed_files,
                   queue, stopped, obs, hand, started, notified, sessions,
                   launched, log, skipped, signals, events>>

-----------------------------------------------------------------------------
(* SIGINT *)

\* FileWatcher.stop (lines 241-243) and observer.stop (line 322)
stop == stopped' = TRUE

\* a SIGINT reaches the process.  Before line 314 Python's default handler
\* raises KeyboardInterrupt in the main thread: no except clause of the program
\* catches it, main() ends, and the interpreter exits without waiting for the
\* observer's threads, which are daemon threads.  After line 314
\* signal_handler runs on the main thread, on top of whatever main is doing
\* (lines 308-309); a SIGINT during the handler or the finally clause runs it
\* again, with the same stop, join and exit.
sigint ==
    /\ ProcessAlive
    /\ signals < MaxSignals
    /\ signals' = signals + 1
    /\ IF handler
       THEN /\ main' = [main EXCEPT !.pc = "h_stop"]
            /\ UNCHANGED <<hand, log>>
       ELSE IF main.pc = "process" /\ InCall("main")
                 /\ Landing(IF hand["main"].pc = "tool" THEN "run" ELSE "body",
                            "KeyboardInterrupt") # "raised"
       THEN /\ hand' = Raise("main", IF hand["main"].pc = "tool" THEN "run" ELSE "body",
                             "KeyboardInterrupt")
            /\ UNCHANGED <<main, log>>
       ELSE /\ main' = Unwound("KeyboardInterrupt")
            /\ log' = log \cup UnwoundLog("KeyboardInterrupt")
            /\ hand' = hand
    /\ UNCHANGED <<fs_dirs, fs_files, unreadable, environ, experiment_info, processed_files,
                   queue, stopped, handler, obs, started, notified, sessions,
                   launched, skipped, events>>

\* signal_handler: event_handler.stop() (line 310)
handler_stop ==
    /\ main.pc = "h_stop"
    /\ stop
    /\ main' = [main EXCEPT !.pc = "h_join"]
    /\ UNCHANGED <<fs_dirs, fs_files, unreadable, environ, experiment_info, processed_files,
                   queue, handler, obs, hand, started, notified, sessions,
                   launched, log, skipped, signals, events>>

\* signal_handler: observer.join() returns once the observer thread has ended,
\* then sys.exit(0) raises SystemExit into the wait loop (lines 311-312, 321)
handler_join ==
    /\ main.pc = "h_join"
    /\ ObserverDone
    /\ main' = [main EXCEPT !.pc = "f_stop"]
    /\ UNCHANGED <<fs_dirs, fs_files, unreadable, environ, experiment_info, processed_files,
                   queue, stopped, handler, obs, hand, started, notified,
                   sessions, launched, log, skipped, signals, events>>

\* the finally clause: observer.stop() (line 322)
finally_stop ==
    /\ main.pc = "f_stop"
    /\ stop
    /\ main' = [main EXCEPT !.pc = "f_join"]
    /\ UNCHANGED <<fs_dirs, fs_files, unreadable, environ, experiment_info, processed_files,
                   queue, handler, obs, hand, started, notified, sessions,
                   launched, log, skipped, signals, events>>

\* the finally clause: observer.join(), then main() returns (lines 323-324)
finally_join ==
    /\ main.pc = "f_join"
    /\ ObserverDone
    /\ main' = [main EXCEPT !.pc = "Stopped"]
    /\ UNCHANGED <<fs_dirs, fs_files, unreadable, environ, experiment_info, processed_files,
                   queue, stopped, handler, obs, hand, started, notified,
                   sessions, launched, log, skipped, signals, events>>

-----------------------------------------------------------------------------

Next ==
    \/ main_validate
    \/ main_start_observer
    \/ main_walk
    \/ main_next_file
    \/ main_return
    \/ main_install
    \/ \E event \in Entries : file_created(event)
    \/ on_created
    \/ on_created_return
    \/ observer_exit
    \/ \E t \in Threads : send_email_notification(t)
    \/ \E t \in Threads : run_basecalling(t)
    \/ \E t \in Threads : tool_exit(t)
    \/ sigint
    \/ handler_stop
    \/ handler_join
    \/ finally_stop
    \/ finally_join

Spec == Init /\ [][Next]_vars

-----------------------------------------------------------------------------
(* Properties *)

IsMarkerEvent(event) ==
    ~event.is_directory /\ event.src_path \in Markers

\* C1: for every marker path P, process_file(P) is called at most once in one
\* process lifetime, whatever the interleaving of the startup scan with the
\* live events: of a scan and an event that both see P, one skips it.
C1_HandledAtMostOnce ==
    \A p \in Paths : started[p] <= 1

\* C2: while the observer thread waits for the external tool run for one
\* marker, no creation event for a different marker is held back in the queue
\* behind it.
C2_EventNotHeldBehindTool ==
    ~ /\ ProcessAlive
      /\ hand["observer"].pc = "tool"
      /\ \E i \in 1..Len(queue) :
            /\ IsMarkerEvent(queue[i])
            /\ queue[i].src_path # hand["observer"].path
            /\ queue[i].src_path \notin processed_files

\* the observer thread takes a creation event for p
Delivers(p) ==
    /\ obs = "idle"
    /\ queue # <<>>
    /\ Head(queue).src_path = p
    /\ queue' = Tail(queue)

\* C3: once the handling of P has completed (process_file has returned and P
\* has been put into processed_files, by the scan or by an earlier event),
\* every creation event for P delivered later starts no call of process_file,
\* no notification and no dispatch: the observer thread goes back to waiting.
C3_NoRehandlingAfterCompletion ==
    [][\A p \in Paths :
          (p \in processed_files /\ Delivers(p)) =>
              /\ started' = started
              /\ notified' = notified
              /\ launched' = launched
              /\ hand' = hand
              /\ obs' = "idle"
              /\ p \in skipped'["observer"]]_vars

\* a marker handled by the scan, then two creation events for it, both skipped
C3_Witness ==
    /\ ExpMarker \in processed_files
    /\ ExpMarker \in skipped["observer"]
    /\ started[ExpMarker] = 1
    /\ events = 2
    /\ queue = <<>>
    /\ fs_files = {ExpMarker, UpperFile}
    /\ MarkerNamedDir \notin fs_dirs

\* the call in progress on thread t has seen the external tool fail: a nonzero
\* exit (CalledProcessError) or no child at all (OSError)
ToolFailed(t) == hand[t].exc \in {"CalledProcessError", "OSError"}

\* thread t leaves the call of process_file it is in
Returns(t) == hand[t].pc = "returned" /\ hand'[t] # hand[t]

\* thread t is back in its loop, ready for the next event or file
Continues(t) ==
    IF t = "observer" THEN obs' = "idle" ELSE main'.pc = "files"

\* C4: a failing external tool (nonzero exit, or no child started) never ends
\* the watcher: the failure is logged, process_file returns normally, the path
\* is put into processed_files, the thread goes on with its loop, and no call
\* of process_file is ever started again for a path in processed_files.
C4_ToolFailureIsContained ==
    /\ [](obs # "crashed")
    /\ [](\A t \in Threads : ToolFailed(t) =>
            /\ hand[t].pc = "returned"
            /\ hand[t].errors \cap {"basecalling_failed", "unexpected_error"} # {})
    /\ [][\A t \in Threads : (ToolFailed(t) /\ Returns(t)) =>
            /\ hand[t].path \in processed_files'
            /\ hand'[t] = NoCall
            /\ Continues(t)]_vars
    /\ [][\A p \in Paths : p \in processed_files =>
            /\ p \in processed_files'
            /\ started'[p] = started[p]]_vars

\* the tool has exited nonzero on the observer thread while another event waits
C4_Witness ==
    /\ hand["observer"].pc = "returned"
    /\ hand["observer"].exc = "CalledProcessError"
    /\ "basecalling_failed" \in hand["observer"].errors
    /\ queue # <<>>

\* C5: the process is Stopped only after observer.stop() has been called and
\* the observer thread has ended (been joined).
C5_StoppedOnlyAfterJoin ==
    (main.pc = "Stopped" /\ obs # "unstarted") =>
        (stopped /\ obs \in {"terminated", "crashed"})

\* C6: a SIGINT received once the observer has been started stops the
\* observer: the process is never Stopped with the stop never requested.
C6_SignalStopsObserver ==
    (signals > 0 /\ obs # "unstarted" /\ main.pc = "Stopped") => stopped

\* the directory k levels above the directory of path p (the root is its own
\* parent), and whether it holds a directory named pod5
LevelDir(p, k) == SubSeq(p, 1, IF Len(p) - 1 - k > 0 THEN Len(p) - 1 - k ELSE 0)

HasPod5At(p, k) == Append(LevelDir(p, k), POD5) \in fs_dirs

NoPod5Within(p, n) == \A k \in 0..(n - 1) : ~HasPod5At(p, k)

\* C7: for a marker with no pod5 directory in its directory, its parent and its
\* grandparent, no child process is ever started; the call still attempts the
\* notification, logs the miss, returns, and the path is put into
\* processed_files.
C7_LocatorMissSkipsDispatch ==
    /\ [](\A p \in Markers : NoPod5Within(p, 3) => launched[p] = 0)
    /\ [](\A t \in Threads :
            (hand[t].pc = "returned" /\ NoPod5Within(hand[t].path, 3)) =>
                /\ notified[hand[t].path] >= 1
                /\ hand[t].pod5_folder = None
                /\ experiment_info.basecalling_method \in {"simplex", "duplex"}
                      => "pod5_not_found" \in hand[t].errors)
    /\ [][\A t \in Threads :
            (NoPod5Within(hand[t].path, 3) /\ Returns(t)) =>
                /\ hand[t].path \in processed_files'
                /\ Continues(t)]_vars

\* a live marker three levels below the only pod5 directory: not located
C7_Witness ==
    /\ hand["observer"].pc = "returned"
    /\ hand["observer"].path = SubMarker
    /\ "pod5_not_found" \in hand["observer"].errors
    /\ join(ROOT, POD5) \in fs_dirs
    /\ notified[SubMarker] = 1
    /\ launched[SubMarker] = 0

\* C8: with SMTP_USER or SMTP_PASSWORD absent no SMTP session is opened; the
\* notification is attempted once per call and, whether it is skipped, fails
\* or succeeds, the call goes on to the dispatch; the path is put into
\* processed_files when the call returns.
C8_NotificationFailureDoesNotBlock ==
    /\ []((environ.SMTP_USER = "unset" \/ environ.SMTP_PASSWORD = "unset") =>
            \A p \in Paths : sessions[p] = 0)
    /\ [](\A p \in Paths : notified[p] <= started[p] /\ sessions[p] <= notified[p])
    /\ [][\A t \in Threads : (hand[t].pc = "notify" /\ hand'[t] # hand[t]) =>
            /\ hand'[t].pc = "dispatch"
            /\ notified'[hand[t].path] = notified[hand[t].path] + 1]_vars
    /\ [][\A t \in Threads :
            (hand[t].errors \cap {"smtp_credentials", "email_failed"} # {}
                /\ Returns(t)) =>
                hand[t].path \in processed_files']_vars

\* only the password is missing: no session, and the tool is running
C8_Witness ==
    /\ environ.SMTP_USER = "set"
    /\ environ.SMTP_PASSWORD = "unset"
    /\ hand["observer"].pc = "tool"
    /\ "smtp_credentials" \in hand["observer"].errors
    /\ sessions[hand["observer"].path] = 0

\* C10: when the configured path is not a directory, the observer is never
\* started, nothing is scanned, notified or dispatched, and main() ends after
\* logging the error.
C10_MissingRootStartsNothing ==
    experiment_info.path \notin fs_dirs =>
        /\ obs = "unstarted"
        /\ main.pc \in {"start", "Stopped"}
        /\ main.walk = <<>>
        /\ \A p \in Paths : started[p] = 0 /\ notified[p] = 0 /\ launched[p] = 0
        /\ (main.pc = "Stopped" /\ signals = 0) =>
              <<"data_path_missing", experiment_info.path>> \in log

C10_Witness ==
    /\ experiment_info.path = MissingDir
    /\ main.pc = "Stopped"
    /\ signals = 0
    /\ <<"data_path_missing", MissingDir>> \in log

-----------------------------------------------------------------------------
(* find_pod5_folder on its own: every placement of pod5 directories along a  *)
(* chain of five directories, a marker in any of them, the scan about to     *)
(* dispatch it.                                                              *)

DeepDir == join(SubDir, <<"b">>)
LocatorChain == Chain \cup {DeepDir}
LocatorMarkers == {join(d, MarkerName) : d \in LocatorChain}

LocatorInit ==
    /\ \E layout \in SUBSET LocatorChain :
          fs_dirs = LocatorChain \cup {join(d, POD5) : d \in layout}
    /\ \E d \in LocatorChain :
          /\ fs_files \in {{join(d, MarkerName)},
                           {join(d, MarkerName), join(dirname(d), POD5)} \ fs_dirs}
          /\ main = [pc |-> "process", walk |-> <<>>, root |-> d, files |-> <<MarkerName>>,
                     scans |-> 1]
          /\ hand = [t \in Threads |->
                       IF t = "main"
                       THEN [NoCall EXCEPT !.pc = "dispatch", !.path = join(d, MarkerName)]
                       ELSE NoCall]
          /\ started = [p \in LocatorMarkers |-> IF p = join(d, MarkerName) THEN 1 ELSE 0]
    /\ notified = started
    /\ sessions = started
    /\ launched = [p \in LocatorMarkers |-> 0]
    /\ unreadable = {}
    /\ environ = [SMTP_USER |-> "set", SMTP_PASSWORD |-> "set"]
    /\ experiment_info \in [path : {ROOT}, basecalling_method : {"simplex", "duplex"},
                            model : {"hac", "sup"},
                            dorado_executable : {"dorado", "/opt/dorado/bin/dorado"}]
    /\ processed_files = {}
    /\ queue = <<>>
    /\ stopped = FALSE
    /\ handler = FALSE
    /\ obs = "idle"
    /\ log = {}
    /\ skipped = [t \in Threads |-> {}]
    /\ signals = 0
    /\ events = 0

LocatorNext ==
    \/ run_basecalling("main")
    \/ tool_exit("main")

LocatorSpec == LocatorInit /\ [][LocatorNext]_vars

\* the smallest level below n at which a pod5 directory exists for path p
NearestLevel(p, n) ==
    CHOOSE k \in 0..(n - 1) : HasPod5At(p, k) /\ \A j \in 0..(k - 1) : ~HasPod5At(p, j)

\* C9: find_pod5_folder returns the pod5 directory at the smallest level k in
\* {0, 1, 2} (the marker's directory, its parent, its grandparent) at which a
\* directory named pod5 exists, and not-found when there is none at these
\* levels, whatever exists higher up; a marker less than two levels below the
\* filesystem root raises nothing.
C9_NearestPod5WithinThreeLevels ==
    \A t \in Threads :
        (hand[t].pc \in {"tool", "returned"}
            /\ experiment_info.basecalling_method \in {"simplex", "duplex"}) =>
            IF NoPod5Within(hand[t].path, 3)
            THEN /\ hand[t].pod5_folder = None
                 /\ "pod5_not_found" \in hand[t].errors
                 /\ hand[t].exc = "none"
                 /\ launched[hand[t].path] = 0
            ELSE /\ hand[t].pod5_folder =
                       Append(LevelDir(hand[t].path, NearestLevel(hand[t].path, 3)), POD5)
                 /\ "pod5_not_found" \notin hand[t].errors

\* pod5 at levels 3 and 4 only: not found
C9_Witness ==
    /\ hand["main"].pc = "returned"
    /\ hand["main"].path = join(DeepDir, MarkerName)
    /\ fs_dirs = LocatorChain \cup {join(ROOT, POD5), join(ExpDir, POD5)}
    /\ hand["main"].pod5_folder = None

-----------------------------------------------------------------------------
(* The startup scan on its own: a tree of four directories below the root,   *)
(* markers in any of them, any of them unreadable, no creation event; the    *)
(* scan (lines 290-306) is run again once it has ended.                      *)

MaxScans == 2         \* runs of the startup scan in one process

Run2Dir == <<<<"exp">>, <<"run2">>>>
ScanDirs == {ExpDir, RunDir, SubDir, Run2Dir}
ScanMarkers == {join(d, MarkerName) : d \in ScanDirs}
ScanPaths == ScanMarkers \cup {UpperFile}

ScanInit ==
    /\ fs_dirs = {ROOT} \cup ScanDirs \cup {join(RunDir, POD5)}
    /\ \E markers \in SUBSET ScanMarkers : fs_files = markers \cup {UpperFile}
    /\ unreadable \in SUBSET ScanDirs
    /\ environ = [SMTP_USER |-> "set", SMTP_PASSWORD |-> "set"]
    /\ experiment_info \in [path : {ExpDir}, basecalling_method : Methods,
                            model : {"hac"}, dorado_executable : {"dorado"}]
    /\ processed_files = {}
    /\ queue = <<>>
    /\ stopped = FALSE
    /\ handler = FALSE
    /\ main = [pc |-> "start", walk |-> <<>>, root |-> None, files |-> <<>>, scans |-> 0]
    /\ obs = "unstarted"
    /\ hand = [t \in Threads |-> NoCall]
    /\ started = [p \in ScanPaths |-> 0]
    /\ notified = [p \in ScanPaths |-> 0]
    /\ sessions = [p \in ScanPaths |-> 0]
    /\ launched = [p \in ScanPaths |-> 0]
    /\ log = {}
    /\ skipped = [t \in Threads |-> {}]
    /\ signals = 0
    /\ events = 0

\* the scan has ended and its code (lines 292-306) is run once more, on the
\* same FileWatcher
main_rescan ==
    /\ main.pc = "install"
    /\ main.scans < MaxScans
    /\ main' = [main EXCEPT !.pc = "files", !.walk = <<experiment_info.path>>,
                            !.scans = @ + 1]
    /\ UNCHANGED <<fs_dirs, fs_files, unreadable, environ, experiment_info,
                   processed_files, queue, stopped, handler, obs, hand, started,
                   notified, sessions, launched, log, skipped, signals, events>>

ScanNext ==
    \/ main_validate
    \/ main_start_observer
    \/ main_walk
    \/ main_next_file
    \/ main_return
    \/ main_rescan
    \/ main_install
    \/ send_email_notification("main")
    \/ run_basecalling("main")
    \/ tool_exit("main")

ScanSpec == ScanInit /\ [][ScanNext]_vars

\* the scan has ended for the n-th time
ScanEnded(n) == main.scans = n /\ main.pc \in {"install", "wait"}

\* C11: running the startup scan a second time in the same process, over the
\* same tree, starts no call of process_file, no notification and no child for
\* a marker the first scan handled: each such marker is found in
\* processed_files and passed over.
C11_RescanHandlesNothingAgain ==
    /\ [](\A p \in ScanPaths :
             /\ started[p] <= 1 /\ notified[p] <= 1 /\ launched[p] <= 1
             /\ (ScanEnded(1) /\ started[p] = 1) => p \in processed_files
             /\ (ScanEnded(2) /\ started[p] = 1) => p \in skipped["main"])
    /\ [][main.scans >= 2 =>
             /\ started' = started
             /\ notified' = notified
             /\ launched' = launched
             /\ hand' = hand]_vars

\* the second scan has ended, having passed over the three markers that the
\* first scan handled
C11_Witness ==
    /\ ScanEnded(2)
    /\ unreadable = {}
    /\ Cardinality({p \in ScanPaths : started[p] = 1}) = 3
    /\ skipped["main"] = {p \in ScanPaths : started[p] = 1}
    /\ \A p \in ScanPaths : started[p] = 1 => notified[p] = 1

-----------------------------------------------------------------------------
(* The test of the name on its own: one entry in the monitored directory, a  *)
(* file or a directory, of any name of up to three tokens, there at startup  *)
(* or created once the observer runs.                                        *)

Tokens == {"final_summary", "Final_summary", "_run", ".txt", ".TXT"}
Names == {<<a>> : a \in Tokens}
            \cup {<<a, b>> : a \in Tokens, b \in Tokens}
            \cup {<<a, b, c>> : a \in Tokens, b \in Tokens, c \in Tokens}

MatcherPaths == {join(ExpDir, n) : n \in Names}
MatcherEntries == [src_path : MatcherPaths, is_directory : BOOLEAN]
MatcherDirs == {ROOT, ExpDir, join(ExpDir, POD5)}

MatcherInit ==
    /\ \E present \in {{}} \cup {{e} : e \in MatcherEntries} :
          /\ fs_dirs = MatcherDirs \cup {e.src_path : e \in {x \in present : x.is_directory}}
          /\ fs_files = {e.src_path : e \in {x \in present : ~x.is_directory}}
    /\ unreadable = {}
    /\ environ = [SMTP_USER |-> "set", SMTP_PASSWORD |-> "set"]
    /\ experiment_info = [path |-> ExpDir, basecalling_method |-> "simplex",
                          model |-> "hac", dorado_executable |-> "dorado"]
    /\ processed_files = {}
    /\ queue = <<>>
    /\ stopped = FALSE
    /\ handler = FALSE
    /\ main = [pc |-> "start", walk |-> <<>>, root |-> None, files |-> <<>>, scans |-> 0]
    /\ obs = "unstarted"
    /\ hand = [t \in Threads |-> NoCall]
    /\ started = [p \in MatcherPaths |-> 0]
    /\ notified = [p \in MatcherPaths |-> 0]
    /\ sessions = [p \in MatcherPaths |-> 0]
    /\ launched = [p \in MatcherPaths |-> 0]
    /\ log = {}
    /\ skipped = [t \in Threads |-> {}]
    /\ signals = 0
    /\ events = 0

\* the entry is created, when it was not there at startup
entry_created(event) ==
    /\ fs_files = {}
    /\ fs_dirs = MatcherDirs
    /\ file_created(event)

MatcherNext ==
    \/ main_validate
    \/ main_start_observer
    \/ main_walk
    \/ main_next_file
    \/ main_return
    \/ main_install
    \/ \E event \in MatcherEntries : entry_created(event)
    \/ on_created
    \/ on_created_return
    \/ \E t \in Threads : send_email_notification(t)
    \/ \E t \in Threads : run_basecalling(t)
    \/ \E t \in Threads : tool_exit(t)

MatcherSpec == MatcherInit /\ [][MatcherNext]_vars

\* the marker predicate as the claim states it: the first token of the name is
\* final_summary, the last one is .txt, in this very case
IsMarkerName(n) == n[1] = "final_summary" /\ n[Len(n)] = ".txt"

\* the scan is over, every event has been delivered, no call is in progress
Quiescent ==
    /\ main.pc = "wait"
    /\ obs = "idle"
    /\ queue = <<>>
    /\ \A t \in Threads : hand[t] = NoCall

\* C12: an entry is handled as a marker if and only if it is not a directory
\* and its name starts with final_summary and ends with .txt, case-sensitive;
\* the test of the live watcher and the test of the scan accept the same
\* names.
C12_SameMarkerPredicate ==
    /\ \A n \in Names :
          /\ isMarkerLive(n) = IsMarkerName(n)
          /\ isMarkerScan(n) = IsMarkerName(n)
    /\ \A p \in MatcherPaths :
          started[p] > 0 => (p \in fs_files /\ IsMarkerName(basename(p)))
    /\ Quiescent =>
          \A p \in MatcherPaths :
             (p \in fs_files /\ IsMarkerName(basename(p))) =>
                 (started[p] >= 1 /\ p \in processed_files)

\* a directory named like a marker has been created and its event delivered
\* and dropped, while the scan found nothing
C12_Witness ==
    /\ Quiescent
    /\ events = 1
    /\ join(ExpDir, MarkerName) \in fs_dirs
    /\ \A p \in MatcherPaths : started[p] = 0

-----------------------------------------------------------------------------
(* Further properties of the whole program *)

\* thread t has tested a path against processed_files and found it absent,
\* and has not yet added it (lines 75-78, 299-302)
InWindow(t) == hand[t].pc # "none"

\* C13: processed_files has a single writer: at no time are two threads both
\* between a membership test and the matching insertion, for the same path or
\* for different paths.
C13_SingleWriter ==
    ~ /\ ProcessAlive
      /\ InWindow("main")
      /\ InWindow("observer")

\* thread t is inside the loop body that called process_file
AtCall(t) ==
    IF t = "observer" THEN obs = "handling" ELSE main.pc \in {"process", "Stopped"}

\* C14: the handling of one marker runs synchronously and to completion
\* (name test, membership test, notification, dispatch, insertion) on the
\* thread that received it, before that thread takes its next event or file:
\* a thread has at most one handling in progress, it starts a child only from
\* that handling, one at a time, so at most one child runs per thread, two in
\* the process.
C14_SynchronousHandling ==
    /\ [](\A t \in Threads :
            /\ InWindow(t) => AtCall(t)
            /\ hand[t].pc \in {"dispatch", "tool", "returned"} =>
                  notified[hand[t].path] >= 1)
    /\ [](Cardinality({t \in Threads : hand[t].pc = "tool"}) <= 2)
    /\ [][\A t \in Threads :
            (hand'[t] # hand[t] /\ hand'[t].pc = "notify") => hand[t] = NoCall]_vars
    /\ [][Len(queue') < Len(queue) =>
            (obs = "idle" /\ hand["observer"] = NoCall)]_vars
    /\ [][\A p \in Paths :
            launched'[p] # launched[p] =>
                /\ launched'[p] = launched[p] + 1
                /\ \E t \in Threads :
                      /\ hand[t].pc = "dispatch"
                      /\ hand[t].path = p
                      /\ hand'[t].pc = "tool"]_vars
    /\ [][\A p \in Paths :
            (p \in processed_files' /\ p \notin processed_files) =>
                /\ notified[p] >= 1
                /\ \E t \in Threads :
                      /\ hand[t].pc = "returned"
                      /\ hand[t].path = p
                      /\ hand'[t] = NoCall]_vars

\* the scan and the observer thread each wait for a child, one more event is
\* in the queue
C14_Witness ==
    /\ hand["main"].pc = "tool"
    /\ hand["observer"].pc = "tool"
    /\ queue # <<>>

-----------------------------------------------------------------------------
(* Further properties of the startup scan *)

\* d is dir or a directory above it
IsPrefix(d, dir) == Len(d) <= Len(dir) /\ SubSeq(dir, 1, Len(d)) = d

\* every directory from the monitored root down to the directory of p can be
\* listed
Readable(p) ==
    \A d \in ScanDirs : IsPrefix(d, dirname(p)) => d \notin unreadable

\* C15: a directory that cannot be listed during the startup scan makes the
\* scan pass over that directory and what is below it, and nothing else: when
\* the scan ends every marker whose directories can all be listed has been
\* handled and added; main() is never ended by it, and goes on to install the
\* handler and wait.
C15_UnreadableSubtreeOnlySkipped ==
    /\ main.pc # "Stopped"
    /\ <<"traversal_error", ExpDir>> \notin log
    /\ \A p \in ScanMarkers \cap fs_files :
          /\ (main.scans >= 1 /\ main.pc \in {"install", "wait"} /\ Readable(p)) =>
                (started[p] = 1 /\ notified[p] = 1 /\ p \in processed_files)
          /\ ~Readable(p) => started[p] = 0
    /\ (~ENABLED ScanNext) => main.pc = "wait"

\* run1 cannot be listed: its marker and the one below it are passed over, the
\* markers of the root and of run2 are handled, main() waits
C15_Witness ==
    /\ unreadable = {RunDir}
    /\ ScanMarkers \subseteq fs_files
    /\ main.pc = "wait"
    /\ processed_files = {ExpMarker, join(Run2Dir, MarkerName)}
    /\ started[join(RunDir, MarkerName)] = 0
    /\ started[SubMarker] = 0

-----------------------------------------------------------------------------
(* Further properties of the dispatch *)

\* the command and the output file the claim states for the configured mode
CommandOfMode(pod5_folder) ==
    <<experiment_info.dorado_executable,
      IF experiment_info.basecalling_method = "simplex" THEN "basecaller" ELSE "duplex",
      experiment_info.model,
      pod5_folder>>

OutputOfMode(file_path) ==
    Append(SubSeq(file_path, 1, Len(file_path) - 1),
           IF experiment_info.basecalling_method = "simplex"
           THEN <<"simplex_basecalled", ".bam">>
           ELSE <<"duplex_basecalled", ".bam">>)

\* the call on thread t has located a pod5 folder and is past the dispatch
Located(t) ==
    hand[t].pc \in {"tool", "returned"} /\ hand[t].pod5_folder # None

\* C16 as stated: for every handled marker with a located pod5 folder exactly
\* one external command is started, `<executable> basecaller <model> <pod5>`
\* into <directory of the marker>/simplex_basecalled.bam in mode simplex,
\* `<executable> duplex <model> <pod5>` into duplex_basecalled.bam in mode
\* duplex.
C16_ExactlyOneCommandPerMode ==
    \A t \in Threads : Located(t) =>
        /\ launched[hand[t].path] = 1
        /\ hand[t].command = CommandOfMode(hand[t].pod5_folder)
        /\ hand[t].output_file = OutputOfMode(hand[t].path)

\* C16 as amended: at most one external command is started, exactly one unless
\* opening the output file or starting the child fails, in which case none
\* is; the command and the output file are those of the configured mode.
C16_AtMostOneCommandPerMode ==
    \A t \in Threads : InWindow(t) =>
        /\ launched[hand[t].path] <= 1
        /\ Located(t) =>
              /\ launched[hand[t].path] = IF hand[t].exc = "OSError" THEN 0 ELSE 1
              /\ hand[t].command = CommandOfMode(hand[t].pod5_folder)
              /\ hand[t].output_file = OutputOfMode(hand[t].path)
        /\ (hand[t].pc = "returned" /\ ~Located(t)) =>
              /\ launched[hand[t].path] = 0
              /\ hand[t].command = <<>>

\* a duplex run of the second executable with model sup, for a marker whose
\* pod5 folder is in its parent directory; the child has exited
C16_Witness ==
    /\ hand["main"].pc = "returned"
    /\ hand["main"].exc = "none"
    /\ hand["main"].path = join(RunDir, MarkerName)
    /\ hand["main"].command = <<"/opt/dorado/bin/dorado", "duplex", "sup", join(ExpDir, POD5)>>
    /\ hand["main"].output_file = join(RunDir, <<"duplex_basecalled", ".bam">>)
    /\ launched[join(RunDir, MarkerName)] = 1

-----------------------------------------------------------------------------
(* Further properties of processed_files *)

\* C17: processed_files only grows, and a path is a member only if
\* process_file was called for it and has returned: while a handling of the
\* path is still in progress, the path is not yet a member.
C17_MemberOnlyAfterHandling ==
    /\ [][processed_files \subseteq processed_files']_vars
    /\ [](\A p \in processed_files :
            /\ started[p] >= 1
            /\ \A t \in Threads :
                  (ProcessAlive /\ InWindow(t)) => hand[t].path # p)

-----------------------------------------------------------------------------
(* Further properties of process_file *)

\* the calls of process_file for p that have not yet made their notification
AtNotify(p) == {t \in Threads : hand[t].pc = "notify" /\ hand[t].path = p}

\* the call on thread t has run the locator or started a child
Dispatched(t) ==
    \/ hand[t].pc = "tool"
    \/ hand[t].pod5_folder # None
    \/ hand[t].command # <<>>
    \/ hand[t].errors \cap {"pod5_not_found", "basecalling_failed", "unexpected_error"} # {}

\* C18: within each handling of a marker the notification is attempted
\* exactly once, and the attempt has returned, with or without success, before
\* the locator runs and before a child is started: every call past its first
\* stage has made one attempt, and no child is ever started for a call that
\* has not.
C18_NotificationBeforeDispatch ==
    /\ [](\A p \in Paths : notified[p] + Cardinality(AtNotify(p)) = started[p])
    /\ [](\A t \in Threads : Dispatched(t) => hand[t].pc \in {"tool", "returned"})
    /\ [][\A p \in Paths :
            launched'[p] # launched[p] =>
                /\ notified'[p] = notified[p]
                /\ \E t \in Threads \ AtNotify(p) :
                      hand[t].path = p /\ hand'[t].pc = "tool"]_vars
    /\ [][\A t \in Threads :
            (hand[t].pc = "notify" /\ hand'[t] # hand[t]) =>
                (~Dispatched(t) /\ launched' = launched)]_vars

\* the SMTP session has failed, and the child runs all the same
C18_Witness ==
    /\ hand["observer"].pc = "tool"
    /\ "email_failed" \in hand["observer"].errors
    /\ notified[hand["observer"].path] = 1
    /\ started[hand["observer"].path] = 1
    /\ launched[hand["observer"].path] = 1

UnknownMethod == experiment_info.basecalling_method \notin {"simplex", "duplex"}

\* C19: with a configured method that is neither simplex nor duplex, a handling
\* still attempts the notification, runs no locator and starts no child, logs
\* the unknown method and returns; the path is put into processed_files, and
\* no call of process_file is started for it afterwards.
C19_UnknownMethodSkipsDispatch ==
    /\ [](UnknownMethod =>
            /\ \A p \in Paths : launched[p] = 0
            /\ \A t \in Threads :
                  /\ hand[t].pod5_folder = None
                  /\ hand[t].command = <<>>
                  /\ "pod5_not_found" \notin hand[t].errors
                  /\ hand[t].pc # "tool"
                  /\ hand[t].pc = "returned" =>
                        /\ notified[hand[t].path] >= 1
                        /\ "unknown_method" \in hand[t].errors)
    /\ [][UnknownMethod =>
            /\ \A t \in Threads : Returns(t) =>
                  /\ hand[t].path \in processed_files'
                  /\ Continues(t)
            /\ \A p \in processed_files :
                  /\ p \in processed_files'
                  /\ started'[p] = started[p]]_vars

\* method rna: the marker found by the scan was notified and added without a
\* child, and the creation event that came for it later was passed over
C19_Witness ==
    /\ experiment_info.basecalling_method = "rna"
    /\ ExpMarker \in processed_files
    /\ started[ExpMarker] = 1
    /\ notified[ExpMarker] = 1
    /\ launched[ExpMarker] = 0
    /\ ExpMarker \in skipped["observer"]

====
